---- MODULE Spec2Model ----
(***************************************************************************)
(* The Autocomplete widget of src/Autocomplete.tsx as a state machine.     *)
(*                                                                         *)
(* Strings are sequences of one-character strings.  Every event (input     *)
(* change, key press, click, settlement of a filter promise) is handled to *)
(* completion: the handler's state updates are batched, the component      *)
(* re-renders and, when query differs from the previous render, the        *)
(* [query] effect runs, all before the next event.                         *)
(*                                                                         *)
(* The markup of the list is not state of the component: it is the         *)
(* function View of query and filteredOptions, recomputed by every render. *)
(* Spec follows the component's state only; RenderSpec runs one render of  *)
(* a one-suggestion list and keeps its output in markdown.                 *)
(***************************************************************************)
EXTENDS Integers, Sequences, FiniteSets, Bags, TLC

(* ---------------------------------------------------------------- bounds *)

\* At most this many filter promises are unsettled at a time.
MaxPending == 2

\* highlightedIndex is followed while it stays within -MaxDrift .. MaxDrift.
MaxDrift == 3

\* The Match Renderer is checked on titles and queries up to these lengths.
MaxTitleLen == 3

MaxQueryLen == 2

(* ---------------------------------------------------------------- inputs *)

Option(t, v) == [title |-> t, value |-> v]

\* The options prop: the catalogue the filter collaborator draws from.
options ==
  << Option(<<"a">>, "A"), Option(<<"a", "b">>, "AB"), Option(<<"b", "a">>, "BA") >>

\* The values event.target.value takes.
Typed == { <<>>, <<"a">>, <<"a", "b">> }

\* The lists a filter promise may resolve with, whatever the query.
Results == { SubSeq(options, 1, n) : n \in 0..Len(options) }

NONE == -1

\* Strings over chars of length at most n.
Strings(chars, n) == UNION { [1..k -> chars] : k \in 0..n }

\* Characters of the titles and of the queries the Match Renderer is run on.
TitleChars == { "a", "A", "b", "." }

QueryChars == { "a", "A", "b", ".", "(" }

RenderTitles == Strings(TitleChars, MaxTitleLen) \ { <<>> }

RenderQueries == Strings(QueryChars, MaxQueryLen)

(* ----------------------------------------------------------------- state *)

VARIABLES
  query,             \* useState('')
  filteredOptions,   \* useState<Option[]>([])
  highlightedIndex,  \* useState(-1)
  pending,           \* bag of unsettled filter promises [query, result]
  latest,            \* history: the most recently issued filter call
  shownFor,          \* history: the query the shown suggestions were fetched for
  markdown,          \* the markup RenderList produced, or a fault of that render
  lastEvent          \* history: the event handled last

vars == << query, filteredOptions, highlightedIndex, pending, latest, shownFor, markdown, lastEvent >>

NoFetch == [query |-> <<>>, result |-> <<>>]

Event(k, from) == [kind |-> k, from |-> from]

(* ------------------------------------------------------ the Match Renderer *)

OPEN == "<mark>"

CLOSE == "</mark>"

\* Case folding of the i flag.
Lower(c) == CASE c = "A" -> "a" [] c = "B" -> "b" [] OTHER -> c

\* new RegExp(`(${query})`, 'gi') throws a SyntaxError on an unclosed "(".
WellFormed(q) == \A k \in 1..Len(q) : q[k] # "("

\* Mutation: the i flag is missing.
AtomMatchesCase(p, c) == p = "." \/ p = c

\* Does pattern character p match title character c ?  "." matches any
\* character; any other character matches itself, ignoring case.
AtomMatches(p, c) == p = "." \/ Lower(p) = Lower(c)

\* Does the pattern q match title t at position i ?
MatchesAt(t, q, i) ==
  /\ i + Len(q) - 1 <= Len(t)
  /\ \A k \in 1..Len(q) : AtomMatches(q[k], t[i + k - 1])

RECURSIVE Replace(_, _, _)
\* title.replace(regexp, '<mark>$1</mark>') from position i on: matches are
\* taken left to right, the scan resuming after each match (after the next
\* character when the match is empty).
Replace(t, q, i) ==
  IF i > Len(t)
    THEN IF Len(q) = 0 THEN << OPEN, CLOSE >> ELSE <<>>
    ELSE IF MatchesAt(t, q, i)
      THEN IF Len(q) = 0
             THEN << OPEN, CLOSE, t[i] >> \o Replace(t, q, i + 1)
             ELSE << OPEN >> \o SubSeq(t, i, i + Len(q) - 1) \o << CLOSE >>
                    \o Replace(t, q, i + Len(q))
      ELSE << t[i] >> \o Replace(t, q, i + 1)

\* The markup of the <ul>: one entry per option, or a fault when the RegExp
\* constructor throws while the list is mapped.
View(q, opts) ==
  IF opts # <<>> /\ ~WellFormed(q)
    THEN [fault |-> TRUE, items |-> <<>>]
    ELSE [fault |-> FALSE, items |-> [i \in 1..Len(opts) |-> Replace(opts[i].title, q, 1)]]

\* No list has been rendered.
NotRendered == [fault |-> FALSE, items |-> <<>>]

Init ==
  /\ query = <<>>
  /\ filteredOptions = <<>>
  /\ highlightedIndex = NONE
  /\ pending = EmptyBag
  /\ latest = NoFetch
  /\ shownFor = <<>>
  /\ markdown = NotRendered
  /\ lastEvent = Event("mount", NONE)

(* ------------------------------------------------------- the query effect *)

\* Mutation: the effect calls the filter whatever the query.
EffectCallsFilterAlways(q) == TRUE

\* Does the effect call the filter collaborator for q ?  (if (query) ...)
EffectCallsFilter(q) == q # <<>>

\* filteredOptions after the effect's synchronous part, opts being the value
\* the handler left.
EffectOptions(q, opts) == IF q # <<>> THEN opts ELSE <<>>

\* Mutation: the effect leaves highlightedIndex alone.
EffectIndexKept(idx) == idx

\* highlightedIndex after the effect.
EffectIndex(idx) == NONE

\* Commit of a render in which the handler set query to q, filteredOptions to
\* opts and highlightedIndex to idx; the effect runs iff query changed.
Render(q, opts, idx) ==
  /\ query' = q
  /\ IF q # query
       THEN /\ filteredOptions' = EffectOptions(q, opts)
            /\ highlightedIndex' = EffectIndex(idx)
            /\ IF EffectCallsFilter(q)
                 THEN /\ BagCardinality(pending) < MaxPending
                      /\ \E r \in Results :
                           /\ pending' = pending (+) SetToBag({[query |-> q, result |-> r]})
                           /\ latest' = [query |-> q, result |-> r]
                 ELSE UNCHANGED << pending, latest >>
       ELSE /\ filteredOptions' = opts
            /\ highlightedIndex' = idx
            /\ UNCHANGED << pending, latest >>
  /\ shownFor' = IF filteredOptions' = <<>> THEN <<>> ELSE shownFor
  /\ UNCHANGED markdown

(* --------------------------------------------------------------- handlers *)

handleInputChange ==
  \E v \in Typed :
    /\ v # query
    /\ Render(v, filteredOptions, highlightedIndex)
    /\ lastEvent' = Event("input", highlightedIndex)

\* Mutation: a click sets the query and leaves the dropdown open.
handleOptionClickKeepsOpen ==
  \E j \in 1..Len(filteredOptions) :
    /\ Render(filteredOptions[j].title, filteredOptions, highlightedIndex)
    /\ lastEvent' = Event("click", j - 1)

\* Click on the j-th rendered <li>.
handleOptionClick ==
  \E j \in 1..Len(filteredOptions) :
    /\ Render(filteredOptions[j].title, <<>>, highlightedIndex)
    /\ lastEvent' = Event("click", j - 1)

\* Mutation: the wrap test is off by one.
ArrowDownLateWrap(prevIndex, len) == IF prevIndex = len THEN 0 ELSE prevIndex + 1

ArrowDownIndex(prevIndex, len) == IF prevIndex = len - 1 THEN 0 ELSE prevIndex + 1

\* Mutation: ArrowUp never wraps.
ArrowUpNoWrap(prevIndex, len) == prevIndex - 1

ArrowUpIndex(prevIndex, len) == IF prevIndex = 0 THEN len - 1 ELSE prevIndex - 1

InDrift(i) == i >= -MaxDrift /\ i <= MaxDrift

KeyArrowDown ==
  /\ InDrift(ArrowDownIndex(highlightedIndex, Len(filteredOptions)))
  /\ Render(query, filteredOptions, ArrowDownIndex(highlightedIndex, Len(filteredOptions)))
  /\ lastEvent' = Event("ArrowDown", highlightedIndex)

KeyArrowUp ==
  /\ InDrift(ArrowUpIndex(highlightedIndex, Len(filteredOptions)))
  /\ Render(query, filteredOptions, ArrowUpIndex(highlightedIndex, Len(filteredOptions)))
  /\ lastEvent' = Event("ArrowUp", highlightedIndex)

\* Mutation: the first suggestion cannot be committed.
EnterCommitsAboveFirst(idx, len) == idx > 0 /\ idx < len

\* The guard of the Enter case.
EnterCommits(idx, len) == idx >= 0 /\ idx < len

\* Mutation: Enter without a committable highlight closes the dropdown.
KeyEnterAlwaysCloses ==
  /\ IF EnterCommits(highlightedIndex, Len(filteredOptions))
       THEN Render(filteredOptions[highlightedIndex + 1].title, <<>>, highlightedIndex)
       ELSE Render(query, <<>>, highlightedIndex)
  /\ lastEvent' = Event(IF EnterCommits(highlightedIndex, Len(filteredOptions))
                           THEN "EnterCommit" ELSE "Enter", highlightedIndex)

\* Mutation: an index past the end commits the last suggestion.
KeyEnterClamped ==
  /\ IF highlightedIndex >= 0 /\ filteredOptions # <<>>
       THEN Render(filteredOptions[IF highlightedIndex < Len(filteredOptions)
                                     THEN highlightedIndex + 1
                                     ELSE Len(filteredOptions)].title,
                   <<>>, highlightedIndex)
       ELSE Render(query, filteredOptions, highlightedIndex)
  /\ lastEvent' = Event(IF EnterCommits(highlightedIndex, Len(filteredOptions))
                           THEN "EnterCommit" ELSE "Enter", highlightedIndex)

KeyEnter ==
  /\ IF EnterCommits(highlightedIndex, Len(filteredOptions))
       THEN Render(filteredOptions[highlightedIndex + 1].title, <<>>, highlightedIndex)
       ELSE Render(query, filteredOptions, highlightedIndex)
  /\ lastEvent' = Event(IF EnterCommits(highlightedIndex, Len(filteredOptions))
                           THEN "EnterCommit" ELSE "Enter", highlightedIndex)

\* Mutation: Escape also clears the input.
KeyEscapeClearsQuery ==
  /\ Render(<<>>, <<>>, highlightedIndex)
  /\ lastEvent' = Event("Escape", highlightedIndex)

KeyEscape ==
  /\ Render(query, <<>>, highlightedIndex)
  /\ lastEvent' = Event("Escape", highlightedIndex)

KeyOther ==
  /\ Render(query, filteredOptions, highlightedIndex)
  /\ lastEvent' = Event("other", highlightedIndex)

(* ------------------------------------------------------ promise settlement *)

\* filter(query).then(setFilteredOptions): the promise of f resolves.
FetchResolve ==
  \E f \in BagToSet(pending) :
    /\ pending' = pending (-) SetToBag({f})
    /\ filteredOptions' = f.result
    /\ shownFor' = IF f.result = <<>> THEN <<>> ELSE f.query
    /\ UNCHANGED markdown
    /\ lastEvent' = Event(IF f.query = query THEN "resolve" ELSE "resolveStale", highlightedIndex)
    /\ UNCHANGED << query, highlightedIndex, latest >>

\* The promise of f rejects: no handler is attached.
FetchReject ==
  \E f \in BagToSet(pending) :
    /\ pending' = pending (-) SetToBag({f})
    /\ lastEvent' = Event(IF f.query = query THEN "reject" ELSE "rejectStale", highlightedIndex)
    /\ UNCHANGED << query, filteredOptions, highlightedIndex, latest, shownFor, markdown >>

(* ---------------------------------------------------------- specifications *)

Next ==
  \/ handleInputChange
  \/ handleOptionClick
  \/ KeyArrowDown
  \/ KeyArrowUp
  \/ KeyEnter
  \/ KeyEscape
  \/ KeyOther
  \/ FetchResolve
  \/ FetchReject

Spec == Init /\ [][Next]_vars

\* Keystrokes and successful fetch completions only.
TypingNext ==
  \/ handleInputChange
  \/ FetchResolve

TypingSpec == Init /\ [][TypingNext]_vars

\* The widget about to render one suggestion t under query q.
RenderInit ==
  /\ query \in RenderQueries
  /\ filteredOptions \in { << Option(t, "T") >> : t \in RenderTitles }
  /\ highlightedIndex = NONE
  /\ pending = EmptyBag
  /\ latest = NoFetch
  /\ shownFor = query
  /\ markdown = NotRendered
  /\ lastEvent = Event("mount", NONE)

\* The render of the list (lines 73-93).
RenderList ==
  /\ lastEvent.kind = "mount"
  /\ markdown' = View(query, filteredOptions)
  /\ lastEvent' = Event("render", highlightedIndex)
  /\ UNCHANGED << query, filteredOptions, highlightedIndex, pending, latest, shownFor >>

RenderSpec == RenderInit /\ [][RenderList]_vars

(* ------------------------------------------------------------- properties *)

Valid(i, opts) == i >= 0 /\ i < Len(opts)

Resolved(e) == e.kind \in {"resolve", "resolveStale"}

EnterPressed(e) == e.kind \in {"Enter", "EnterCommit"}

\* C1: a fetch completion whose originating query differs from the current
\* query changes neither query, suggestions nor highlightedIndex.
C1_StaleResultDiscarded ==
  [][lastEvent'.kind = "resolveStale"
       => UNCHANGED << query, filteredOptions, highlightedIndex >>]_vars

\* C2: after keystrokes and fetch completions only, once no fetch is in flight
\* the suggestions are the result of the fetch issued for the final (non-empty)
\* query and nothing is highlighted.
C2_LastQueryWins ==
  (pending = EmptyBag /\ query # <<>>)
    => (latest.query = query /\ filteredOptions = latest.result /\ highlightedIndex = NONE)

\* C3: whenever query is the empty string, suggestions is empty.
C3_EmptyQueryNoSuggestions == query = <<>> => filteredOptions = <<>>

\* C4: a change of query to a non-empty value issues exactly one filter call,
\* for the new query; a change to the empty string issues none and clears the
\* suggestions; an event that leaves query unchanged issues none.
C4_OneCallPerQueryChange ==
  [][/\ (query' # query /\ query' # <<>>)
          => \E r \in Results :
               pending' = pending (+) SetToBag({[query |-> query', result |-> r]})
     /\ (query' # query /\ query' = <<>>)
          => (pending' = pending /\ filteredOptions' = <<>>)
     /\ (query' = query) => (pending' \sqsubseteq pending)]_vars

\* A keystroke changed query to a non-empty value and its fetch is in flight.
C4_Witness ==
  /\ lastEvent.kind = "input"
  /\ query # <<>>
  /\ latest.query = query
  /\ BagIn(latest, pending)

\* C5: highlightedIndex is none or a valid index of suggestions.
C5_HighlightInRange ==
  highlightedIndex = NONE \/ Valid(highlightedIndex, filteredOptions)

\* C6: whenever suggestions is replaced, and whenever a fetch result is
\* applied, highlightedIndex is none afterwards.
C6_ReplaceResetsHighlight ==
  [][(filteredOptions' # filteredOptions \/ Resolved(lastEvent'))
       => highlightedIndex' = NONE]_vars

\* C7: with n > 0 suggestions, ArrowDown moves NONE and AT(n-1) to AT(0) and
\* any other AT(i) to AT(i+1).
C7_ArrowDownCycles ==
  [][(/\ lastEvent'.kind = "ArrowDown"
      /\ Len(filteredOptions) > 0
      /\ (highlightedIndex = NONE \/ Valid(highlightedIndex, filteredOptions)))
       => highlightedIndex' =
            IF highlightedIndex = NONE \/ highlightedIndex = Len(filteredOptions) - 1
              THEN 0 ELSE highlightedIndex + 1]_vars

\* ArrowDown wrapped from the last of three suggestions to the first.
C7_Witness ==
  /\ lastEvent = Event("ArrowDown", 2)
  /\ Len(filteredOptions) = 3
  /\ highlightedIndex = 0

\* C8: with n > 0 suggestions, ArrowUp moves NONE and AT(0) to AT(n-1) and any
\* other AT(i) to AT(i-1).
C8_ArrowUpCycles ==
  [][(/\ lastEvent'.kind = "ArrowUp"
      /\ Len(filteredOptions) > 0
      /\ (highlightedIndex = NONE \/ Valid(highlightedIndex, filteredOptions)))
       => highlightedIndex' =
            IF highlightedIndex = NONE \/ highlightedIndex = 0
              THEN Len(filteredOptions) - 1 ELSE highlightedIndex - 1]_vars

\* C9: Enter at a valid index i sets query to suggestions[i].title and empties
\* suggestions in the state right after the key event.
C9_EnterCommits ==
  [][(EnterPressed(lastEvent') /\ Valid(highlightedIndex, filteredOptions))
       => /\ query' = filteredOptions[highlightedIndex + 1].title
          /\ filteredOptions' = <<>>]_vars

\* Enter committed the third suggestion, whose title no keystroke produces.
C9_Witness ==
  /\ lastEvent = Event("EnterCommit", 2)
  /\ query = options[3].title
  /\ filteredOptions = <<>>

\* C10: after Enter at a valid index, highlightedIndex is none, also when the
\* committed title equals the current query.
C10_EnterResetsHighlight ==
  [][(EnterPressed(lastEvent') /\ Valid(highlightedIndex, filteredOptions))
       => highlightedIndex' = NONE]_vars

\* C11: Enter while highlightedIndex is none changes neither query, suggestions
\* nor highlightedIndex and issues no fetch.
C11_EnterAtNoneIsNoOp ==
  [][(EnterPressed(lastEvent') /\ highlightedIndex = NONE)
       => UNCHANGED << query, filteredOptions, highlightedIndex, pending >>]_vars

\* Enter was pressed with nothing highlighted while suggestions were shown.
C11_Witness ==
  /\ lastEvent = Event("Enter", NONE)
  /\ filteredOptions # <<>>
  /\ highlightedIndex = NONE

\* C12: Escape empties suggestions, resets highlightedIndex to none and leaves
\* query unchanged.
C12_EscapeClosesAndResets ==
  [][lastEvent'.kind = "Escape"
       => /\ filteredOptions' = <<>>
          /\ highlightedIndex' = NONE
          /\ query' = query]_vars

\* What committing suggestion j (0-based) of opts leaves in query and suggestions.
CommitResult(opts, j) == << opts[j + 1].title, <<>> >>

\* C13: a click on suggestion j sets query to its title and empties suggestions,
\* whatever highlightedIndex is; Enter at AT(j) leaves the same query and
\* suggestions.
C13_ClickCommitsLikeEnter ==
  [][/\ lastEvent'.kind = "click"
          => << query', filteredOptions' >> = CommitResult(filteredOptions, lastEvent'.from)
     /\ (EnterPressed(lastEvent') /\ Valid(highlightedIndex, filteredOptions))
          => << query', filteredOptions' >> = CommitResult(filteredOptions, highlightedIndex)]_vars

\* The third suggestion was clicked and is now the query.
C13_Witness ==
  /\ lastEvent = Event("click", 2)
  /\ query = options[3].title
  /\ filteredOptions = <<>>

\* C14: after the fetch issued for the current query fails, suggestions is empty.
C14_FailureShowsNothing ==
  [][lastEvent'.kind = "reject" => filteredOptions' = <<>>]_vars

\* C18: ArrowDown and ArrowUp pressed while suggestions is empty leave
\* highlightedIndex unchanged.
C18_ArrowsNeedSuggestions ==
  [][(lastEvent'.kind \in {"ArrowDown", "ArrowUp"} /\ filteredOptions = <<>>)
       => highlightedIndex' = highlightedIndex]_vars

\* C19: every change of query leaves highlightedIndex none.
C19_QueryChangeResetsHighlight ==
  [][query' # query => highlightedIndex' = NONE]_vars

\* A keystroke changed the query while a suggestion was highlighted.
C19_Witness ==
  /\ lastEvent.kind = "input"
  /\ lastEvent.from >= 0
  /\ highlightedIndex = NONE

\* C20: from a valid AT(i) with suggestions shown, ArrowDown then ArrowUp, and
\* ArrowUp then ArrowDown, end at AT(i), also across the wrap at either end.
C20_ArrowsAreInverse ==
  [][(/\ Valid(lastEvent.from, filteredOptions)
      /\ \/ lastEvent.kind = "ArrowDown" /\ lastEvent'.kind = "ArrowUp"
         \/ lastEvent.kind = "ArrowUp" /\ lastEvent'.kind = "ArrowDown")
       => highlightedIndex' = lastEvent.from]_vars

\* ArrowUp wrapped from the first of three suggestions to the last.
C20_Witness ==
  /\ lastEvent = Event("ArrowUp", 0)
  /\ Len(filteredOptions) = 3
  /\ highlightedIndex = 2

\* C15: suggestions is empty or is the result of a completed fetch that was
\* issued for the current query.
C15_SuggestionsForCurrentQuery == filteredOptions = <<>> \/ shownFor = query

(* ------------------------------------------- properties of the Match Renderer *)

Rendered == lastEvent.kind = "render" /\ ~markdown.fault

Title == filteredOptions[1].title

Output == markdown.items[1]

IsMarker(c) == c \in { OPEN, CLOSE }

RECURSIVE Strip(_)
\* The output with the markers removed.
Strip(out) ==
  IF out = <<>> THEN <<>>
  ELSE IF IsMarker(Head(out)) THEN Strip(Tail(out))
  ELSE << Head(out) >> \o Strip(Tail(out))

RECURSIVE Flags(_, _)
\* For each character of the output, in order: is it inside a marker ?
Flags(out, inMark) ==
  IF out = <<>> THEN <<>>
  ELSE IF Head(out) = OPEN THEN Flags(Tail(out), TRUE)
  ELSE IF Head(out) = CLOSE THEN Flags(Tail(out), FALSE)
  ELSE << inMark >> \o Flags(Tail(out), inMark)

\* The marked segments of the output: the text between each OPEN and the
\* CLOSE that follows it.
Segments(out) ==
  { SubSeq(out, i + 1, j - 1) :
      << i, j >> \in { p \in (1..Len(out)) \X (1..Len(out)) :
                        /\ p[1] < p[2]
                        /\ out[p[1]] = OPEN
                        /\ out[p[2]] = CLOSE
                        /\ \A k \in (p[1] + 1)..(p[2] - 1) : out[k] # CLOSE } }

\* Markers alternate OPEN, CLOSE, OPEN, CLOSE, ...
RECURSIVE Balanced(_, _)
Balanced(out, inMark) ==
  IF out = <<>> THEN ~inMark
  ELSE IF Head(out) = OPEN THEN ~inMark /\ Balanced(Tail(out), TRUE)
  ELSE IF Head(out) = CLOSE THEN inMark /\ Balanced(Tail(out), FALSE)
  ELSE Balanced(Tail(out), inMark)

\* s and q are the same text, ignoring case.
SameText(s, q) == Len(s) = Len(q) /\ \A k \in 1..Len(q) : Lower(s[k]) = Lower(q[k])

\* The literal text q occurs in t at position i, ignoring case.
OccursAt(t, q, i) == i + Len(q) - 1 <= Len(t) /\ SameText(SubSeq(t, i, i + Len(q) - 1), q)

Letters(q) == q # <<>> /\ \A k \in 1..Len(q) : q[k] \in { "a", "A", "b", "B" }

\* C16 as stated: for a query of letters, every case-insensitive occurrence of
\* the query in the title lies inside a marker, and the output without the
\* markers is the title.
C16_EveryOccurrenceWrapped ==
  (Rendered /\ Letters(query))
    => /\ Strip(Output) = Title
       /\ Balanced(Output, FALSE)
       /\ \A i \in 1..Len(Title) :
            OccursAt(Title, query, i)
              => \A k \in i..(i + Len(query) - 1) : Flags(Output, FALSE)[k]

\* C16 amended: for a query of letters, the output without the markers is the
\* title, every marked segment is a case-insensitive occurrence of the query,
\* and every occurrence begins inside a marker (occurrences are taken left to
\* right without overlap).
C16_OccurrencesMarkedLeftToRight ==
  (Rendered /\ Letters(query))
    => /\ Strip(Output) = Title
       /\ Balanced(Output, FALSE)
       /\ \A s \in Segments(Output) : SameText(s, query)
       /\ \A i \in 1..Len(Title) :
            OccursAt(Title, query, i) => Flags(Output, FALSE)[i]

\* Query "aa" on title "Aaa": the leading "Aa" is marked in its own casing and
\* the overlapping occurrence after it is not.
C16_Witness ==
  /\ lastEvent.kind = "render"
  /\ query = << "a", "a" >>
  /\ Title = << "A", "a", "a" >>
  /\ Output = << OPEN, "A", "a", CLOSE, "a" >>

\* C17: whatever characters the query is made of, the render does not fault and
\* every marked segment is the literal text of the query, ignoring case.
C17_QueryIsLiteral ==
  (lastEvent.kind = "render" /\ query # <<>>)
    => /\ ~markdown.fault
       /\ Strip(Output) = Title
       /\ \A s \in Segments(Output) : SameText(s, query)

(* ------------------------------------------------- closing and frame claims *)

Committed(e) == e.kind \in {"EnterCommit", "click"}

\* C21: after a commit (Enter at AT(i) or a click) suggestions stays empty until
\* the next keystroke: a fetch that resolves right after the commit leaves
\* suggestions empty.
C21_CommitStaysClosed ==
  [][(Committed(lastEvent) /\ Resolved(lastEvent')) => filteredOptions' = <<>>]_vars

\* C22: after Escape suggestions stays empty until query changes: a fetch that
\* was in flight when Escape was pressed and resolves next leaves suggestions
\* empty.
C22_EscapeStaysClosed ==
  [][(lastEvent.kind = "Escape" /\ Resolved(lastEvent')) => filteredOptions' = <<>>]_vars

\* C23: whatever highlightedIndex is, Enter either sets query to the title of
\* the option of suggestions at position highlightedIndex, or changes nothing.
C23_EnterReadsInsideSuggestions ==
  [][EnterPressed(lastEvent')
       => IF Valid(highlightedIndex, filteredOptions)
            THEN query' = filteredOptions[highlightedIndex + 1].title
            ELSE UNCHANGED << query, filteredOptions, highlightedIndex, pending >>]_vars

\* Enter was pressed with highlightedIndex past the end of shown suggestions.
C23_Witness ==
  /\ lastEvent.kind = "Enter"
  /\ filteredOptions # <<>>
  /\ lastEvent.from >= Len(filteredOptions)
  /\ highlightedIndex = lastEvent.from

\* C24: query changes only on an input change, on Enter at a valid index and on
\* a click; arrows, Escape, other keys and fetch settlements leave it unchanged.
C24_QueryChangedOnlyByInputOrCommit ==
  [][query' # query
       => \/ lastEvent'.kind \in {"input", "click"}
          \/ EnterPressed(lastEvent') /\ Valid(highlightedIndex, filteredOptions)]_vars

\* A committed title is still the query after Escape was pressed.
C24_Witness ==
  /\ lastEvent.kind = "Escape"
  /\ query = options[3].title

====
